---- MODULE Spec2Model ----
(***************************************************************************)
(* The DRF e-commerce backend.  The account flow: registration staged in   *)
(* PendingUser and gated by an e-mailed OTP, JWT login / refresh / logout, *)
(* and the password-reset flow (accounts/views.py, accounts/models.py,     *)
(* accounts/serializers.py, accounts/authentication.py).  The shop:        *)
(* coupons, orders and payments (coupons/, oders/).                        *)
(*                                                                         *)
(* Tables are sets of rows and a request is one atomic action, except for  *)
(* otp/resend/, which is also given statement by statement: the views take *)
(* no lock and run one ORM statement after the other.  Wall-clock time is  *)
(* the variable now, in seconds.                                           *)
(***************************************************************************)
EXTENDS Integers, FiniteSets, Sequences, TLC

(***************************************************************************)
(* Bounds of the model.                                                    *)
(***************************************************************************)
MaxTicks == 2
MaxOTPs == 2
MaxTokens == 4
MaxOrders == 2

(***************************************************************************)
(* Program constants, in seconds.                                          *)
(***************************************************************************)
COOLDOWN_SECONDS == 60
OTP_EXPIRY_SECONDS == 600
ACCESS_TOKEN_LIFETIME == 300
REFRESH_TOKEN_LIFETIME == 86400

(***************************************************************************)
(* Input alphabets.  "a@x" is the address that registers; "A@x" and "a@X"  *)
(* are the same mailbox written in another case; "c@x" is an account the   *)
(* admin site created and never activated.                                 *)
(***************************************************************************)
Emails == {"a@x", "c@x"}
RawEmails == {"a@x", "A@x", "c@x"}
Passwords == {<<"p1">>, <<"p2">>}
Mobiles == {"m1", "m2"}
Codes == {"111111", "222222"}
TickSteps == {60, 600}
NoMobile == "null"
NoPassword == <<>>
NoToken == 0

\* str.lower() on the addresses of the alphabet (views.py:117, :400).
Lower(s) ==
    CASE s = "A@x" -> "a@x"
      [] s = "a@X" -> "a@x"
      [] OTHER -> s

\* BaseUserManager.normalize_email: only the domain part is lower-cased.
normalize_email(s) ==
    CASE s = "a@X" -> "a@x"
      [] OTHER -> s

\* django.contrib.auth.hashers.make_password, the hasher that
\* serializers.py:77 imports and views.py:120 calls: None gives an unusable
\* password, anything else is hashed (also a string that already is a hash).
make_password(raw) ==
    IF raw = NoPassword THEN <<"!">> ELSE <<"pbkdf2">> \o raw

\* AbstractBaseUser.check_password(raw) against the stored hash.
check_password(raw, encoded) ==
    /\ raw # NoPassword
    /\ encoded[1] # "!"
    /\ encoded = make_password(raw)

\* What a client can type into a password field: a password, or the text
\* of a hash.
PasswordInputs == Passwords \cup {make_password(p) : p \in Passwords}

VARIABLES
    now,                    \* timezone.now()
    ticks,                  \* number of clock steps taken
    signalsConnected,       \* accounts/signals.py imported by the build?
    pendingUser,            \* table PendingUser
    customUser,             \* table CustomUser
    emailOTP,               \* table EmailOTP
    blacklistedAccessToken, \* table BlacklistedAccessToken (set of jti)
    tokens,                 \* every JWT signed so far
    nextJti,                \* next fresh jti
    mailsSent,              \* number of OTP mails handed to SMTP
    verified,               \* history: emails whose registration OTP verified
    promotions,             \* history: promotions per email
    staged,                 \* history: raw password of the accepted registration
    credential,             \* history: raw password staged for the promoted account
    resetVerified,          \* history: emails with a verified, unconsumed reset OTP
    loggedOutAccess,        \* history: access jti used by a successful logout
    loggedOutRefresh,       \* history: refresh jti in the cookie of a successful logout
    resend,                 \* otp/resend/ requests in flight, statement by statement
    verifying,              \* otp/verify/ requests in flight, statement by statement
    coupon,                 \* table Coupon
    order,                  \* table Order
    payment,                \* table Payment
    nextOrderId             \* next primary key of Order

dbVars == <<pendingUser, customUser, emailOTP, blacklistedAccessToken>>
jwtVars == <<tokens, nextJti>>
mailVars == <<mailsSent>>
histVars == <<verified, promotions, staged, credential, resetVerified,
              loggedOutAccess, loggedOutRefresh>>
raceVars == <<resend, verifying>>
shopVars == <<coupon, order, payment, nextOrderId>>
accountVars == <<signalsConnected, dbVars, jwtVars, mailVars, histVars, raceVars>>
vars == <<now, ticks, signalsConnected, dbVars, jwtVars, mailVars, histVars, raceVars,
          shopVars>>

----------------------------------------------------------------------------
(***************************************************************************)
(* Rows and queries.                                                       *)
(***************************************************************************)
PendingUserRow(email, password, mobile_no) ==
    [email |-> email, password |-> password, mobile_no |-> mobile_no]

CustomUserRow(email, password, mobile_no, is_active) ==
    [email |-> email, password |-> password, mobile_no |-> mobile_no,
     is_active |-> is_active]

\* An OTP row that lives as long as the cooldown, not OTP_EXPIRY_MINUTES.
EmailOTPRow_short(email, code, purpose, created_at, expires_at) ==
    [email |-> email, code |-> code, purpose |-> purpose,
     created_at |-> created_at, expires_at |-> created_at + COOLDOWN_SECONDS,
     is_used |-> FALSE]

EmailOTPRow(email, code, purpose, created_at, expires_at) ==
    [email |-> email, code |-> code, purpose |-> purpose,
     created_at |-> created_at, expires_at |-> expires_at, is_used |-> FALSE]

Token(jti, type, user, exp) ==
    [jti |-> jti, type |-> type, user |-> user, exp |-> exp]

\* is_expired with > for >=: an OTP still passes at the instant it expires.
is_expired_late(otp) == now > otp.expires_at

\* EmailOTP.is_expired
is_expired(otp) == now >= otp.expires_at

\* mark_used that leaves the row as it is.
mark_used_not(otps, otp) == otps

\* EmailOTP.mark_used, on the table: is_used = True, saved.
mark_used(otps, otp) == (otps \ {otp}) \cup {[otp EXCEPT !.is_used = TRUE]}

\* The cooldown test with the comparison against COOLDOWN_SECONDS left out.
in_cooldown_never(last_otp) == FALSE

\* (timezone.now() - last_otp.created_at).total_seconds() < COOLDOWN_SECONDS
in_cooldown(last_otp) == now - last_otp.created_at < COOLDOWN_SECONDS

\* queryset.order_by("-created_at").first() / .latest("created_at")
Latest(rows) ==
    CHOOSE r \in rows : \A s \in rows : s.created_at <= r.created_at

PendingByEmail(email) == {p \in pendingUser : p.email = email}
UserByEmail(email) == {u \in customUser : u.email = email}
\* email__iexact
UserByEmailIexact(login) == {u \in customUser : Lower(u.email) = Lower(login)}
OTPs(email, purpose) == {o \in emailOTP : o.email = email /\ o.purpose = purpose}
\* filter(email=, code=, purpose=, is_used=False)
UnusedOTPs(email, code, purpose) ==
    {o \in OTPs(email, purpose) : o.code = code /\ ~o.is_used}
AccessTokens == {t \in tokens : t.type = "access"}
RefreshTokens == {t \in tokens : t.type = "refresh"}
AccessInputs == {t.jti : t \in AccessTokens} \cup {NoToken}
RefreshInputs == {t.jti : t \in RefreshTokens} \cup {NoToken}
TokenByJti(jti) == CHOOSE t \in tokens : t.jti = jti

\* accounts/signals.py: post_save of an active CustomUser deletes every OTP
\* row of its email, when the receiver is connected.
delete_otp_after_activation(otps, instance) ==
    IF signalsConnected /\ instance.is_active
    THEN {o \in otps : o.email # instance.email}
    ELSE otps

\* RefreshToken.for_user(user) and its access_token: two fresh jti.
RefreshFor(user) == Token(nextJti, "refresh", user.email, now + REFRESH_TOKEN_LIFETIME)
AccessFor(user) == Token(nextJti + 1, "access", user.email, now + ACCESS_TOKEN_LIFETIME)

----------------------------------------------------------------------------
\* Two otp/resend/ requests that the server may run at the same time.
Requests == {"r1", "r2"}

\* The code generate_otp() returns to each request in flight.
RequestCode(r) == IF r = "r1" THEN "111111" ELSE "222222"

\* A request that has not read anything yet.
IdleRequest == [pc |-> "idle", email |-> "", seen |-> {}, mails |-> 0]

\* An otp/verify/ request that has not read anything yet: the OTP row and
\* the PendingUser row it will hold are sets of at most one row.
IdleVerify == [pc |-> "idle", email |-> "", code |-> "", otp |-> {}, pending |-> {}]

Init ==
    /\ now = 0
    /\ ticks = 0
    /\ signalsConnected \in BOOLEAN
    /\ pendingUser = {}
    /\ customUser = {CustomUserRow("c@x", make_password(<<"p1">>), NoMobile, FALSE)}
    /\ emailOTP = {}
    /\ blacklistedAccessToken = {}
    /\ tokens = {}
    /\ nextJti = 1
    /\ mailsSent = 0
    /\ verified = {}
    /\ promotions = [e \in Emails |-> 0]
    /\ staged = [e \in Emails |-> NoPassword]
    /\ credential = [e \in Emails |-> NoPassword]
    /\ resetVerified = {}
    /\ loggedOutAccess = {}
    /\ loggedOutRefresh = {}
    /\ resend = [r \in Requests |-> IdleRequest]
    /\ verifying = [r \in Requests |-> IdleVerify]
    /\ coupon = {}
    /\ order = {}
    /\ payment = {}
    /\ nextOrderId = 1

\* The wall clock advances between requests.
Tick ==
    /\ ticks < MaxTicks
    /\ \E d \in TickSteps : now' = now + d
    /\ ticks' = ticks + 1
    /\ UNCHANGED <<signalsConnected, dbVars, jwtVars, mailVars, histVars, raceVars, shopVars>>

----------------------------------------------------------------------------
(***************************************************************************)
(* POST register/                                                          *)
(***************************************************************************)
\* RegisterSerializer.validate (and the EmailField's own validation): the
\* look-ups use the address as it was sent.
RegisterSerializer_validate(email, password, password2, mobile_no) ==
    /\ email # ""
    /\ password = password2
    /\ UserByEmail(email) = {} /\ PendingByEmail(email) = {}
    /\ {u \in customUser : u.mobile_no = mobile_no} = {}
    /\ {p \in pendingUser : p.mobile_no = mobile_no} = {}

\* the status RegisterView.post answers with
RegisterView_status(rawEmail, password, password2, mobile_no) ==
    LET email == Lower(rawEmail)
        otps == OTPs(email, "registration")
    IN  IF ~RegisterSerializer_validate(rawEmail, password, password2, mobile_no)
        THEN 400
        ELSE IF otps # {} /\ ~Latest(otps).is_used /\ ~is_expired(Latest(otps))
                /\ Latest(otps).expires_at - now > 0
        THEN 400
        ELSE IF otps # {} /\ in_cooldown(Latest(otps))
        THEN 429
        ELSE IF \E p \in pendingUser : p.email # email /\ p.mobile_no = mobile_no
        THEN 400    \* IntegrityError on PendingUser.mobile_no
        ELSE 201

RegisterView_post(rawEmail, password, password2, mobile_no, otp_code) ==
    LET email == Lower(rawEmail)
        status == RegisterView_status(rawEmail, password, password2, mobile_no)
        otp == EmailOTPRow(email, otp_code, "registration",
                           now, now + OTP_EXPIRY_SECONDS)
    IN  IF status = 201
        THEN /\ mailsSent < MaxOTPs
             /\ pendingUser' = (pendingUser \ PendingByEmail(email))
                    \cup {PendingUserRow(email, make_password(password), mobile_no)}
             /\ emailOTP' = (emailOTP \ OTPs(email, "registration")) \cup {otp}
             /\ mailsSent' = mailsSent + 1
             /\ staged' = [staged EXCEPT ![email] = password]
             /\ UNCHANGED <<now, ticks, signalsConnected, shopVars, raceVars, customUser,
                            blacklistedAccessToken, jwtVars, verified, promotions,
                            credential, resetVerified, loggedOutAccess, loggedOutRefresh>>
        ELSE UNCHANGED vars

(***************************************************************************)
(* POST otp/resend/                                                        *)
(***************************************************************************)
ResendOTPView_status(rawEmail) ==
    LET email == Lower(rawEmail)
        otps == OTPs(email, "registration")
    IN  IF email = "" THEN 400
        ELSE IF PendingByEmail(email) = {} THEN 404
        ELSE IF otps # {} /\ ~Latest(otps).is_used /\ ~is_expired(Latest(otps))
        THEN 400
        ELSE IF otps # {} /\ in_cooldown(Latest(otps))
        THEN 429
        ELSE 200

ResendOTPView_post(rawEmail, otp_code) ==
    LET email == Lower(rawEmail)
        otp == EmailOTPRow(email, otp_code, "registration",
                           now, now + OTP_EXPIRY_SECONDS)
    IN  IF ResendOTPView_status(rawEmail) = 200
        THEN /\ mailsSent < MaxOTPs
             /\ emailOTP' = (emailOTP \ OTPs(email, "registration")) \cup {otp}
             /\ mailsSent' = mailsSent + 1
             /\ UNCHANGED <<now, ticks, signalsConnected, shopVars, raceVars, pendingUser, customUser,
                            blacklistedAccessToken, jwtVars, histVars>>
        ELSE UNCHANGED vars

(***************************************************************************)
(* POST otp/resend/, statement by statement.  The view runs outside any    *)
(* transaction, so the statements of two requests may interleave.          *)
(***************************************************************************)
\* Lines 400-430: the reads and the tests.  A request that is refused ends
\* here; one that passes remembers what it read.
ResendOTPView_check(r, rawEmail) ==
    LET email == Lower(rawEmail)
        otps == OTPs(email, "registration")
    IN  /\ resend[r].pc = "idle"
        /\ ResendOTPView_status(rawEmail) = 200
        /\ resend' = [resend EXCEPT ![r] =
               [pc |-> "checked", email |-> email,
                seen |-> IF otps = {} THEN {} ELSE {Latest(otps)},
                mails |-> mailsSent]]
        /\ UNCHANGED <<now, ticks, signalsConnected, shopVars, verifying, dbVars, jwtVars,
                       mailVars, histVars>>

\* The request goes on without deleting the old rows.
ResendOTPView_delete_skip(r) ==
    /\ resend[r].pc = "checked"
    /\ resend' = [resend EXCEPT ![r].pc = "deleted"]
    /\ UNCHANGED <<now, ticks, signalsConnected, shopVars, verifying, dbVars, jwtVars,
                   mailVars, histVars>>

\* Line 433: EmailOTP.objects.filter(email, purpose="registration").delete()
ResendOTPView_delete(r) ==
    /\ resend[r].pc = "checked"
    /\ emailOTP' = emailOTP \ OTPs(resend[r].email, "registration")
    /\ resend' = [resend EXCEPT ![r].pc = "deleted"]
    /\ UNCHANGED <<now, ticks, signalsConnected, shopVars, verifying, pendingUser, customUser,
                   blacklistedAccessToken, jwtVars, mailVars, histVars>>

\* Lines 435-452: create the new row, send the mail, answer 200.
ResendOTPView_create(r) ==
    /\ resend[r].pc = "deleted"
    /\ emailOTP' = emailOTP \cup
           {EmailOTPRow(resend[r].email, RequestCode(r), "registration",
                        now, now + OTP_EXPIRY_SECONDS)}
    /\ mailsSent' = mailsSent + 1
    /\ resend' = [resend EXCEPT ![r].pc = "done"]
    /\ UNCHANGED <<now, ticks, signalsConnected, shopVars, verifying, pendingUser, customUser,
                   blacklistedAccessToken, jwtVars, histVars>>

(***************************************************************************)
(* POST otp/verify/                                                        *)
(***************************************************************************)
\* CustomUserManager.create_user: the row it saves.  set_password hashes
\* whatever it is given.
create_user(email, password, mobile_no, is_active) ==
    CustomUserRow(normalize_email(email), make_password(password), mobile_no, is_active)

\* the unique constraints of CustomUser, were they never to refuse a row
IntegrityError_never(user) == FALSE

\* the unique constraints of CustomUser (email, mobile_no) refuse the row
IntegrityError(user) ==
    \/ UserByEmail(user.email) # {}
    \/ user.mobile_no # NoMobile /\ \E u \in customUser : u.mobile_no = user.mobile_no

\* VerifyOTPView.post without its expiry test.
AcceptedOTP_no_expiry(email, code) ==
    LET otps == UnusedOTPs(email, code, "registration")
    IN  IF otps = {} THEN {} ELSE {Latest(otps)}

\* the OTP row VerifyOTPView.post accepts for (email, code), as a set: the
\* first unused registration row with that code, unless it is expired.
AcceptedOTP(email, code) ==
    LET otps == UnusedOTPs(email, code, "registration")
    IN  IF otps = {} \/ is_expired(Latest(otps)) THEN {} ELSE {Latest(otps)}

VerifyOTPView_status(email, code) ==
    LET pending == PendingByEmail(email)
    IN  IF email = "" \/ code = "" THEN 400
        ELSE IF AcceptedOTP(email, code) = {} THEN 400
        ELSE IF pending = {} THEN 404
        ELSE LET p == CHOOSE p \in pending : TRUE
             IN  IF IntegrityError(create_user(p.email, p.password, p.mobile_no, TRUE))
                 THEN 500
                 ELSE 200

VerifyOTPView_post(email, code) ==
    LET status == VerifyOTPView_status(email, code)
    IN  IF status = 200
        THEN LET otp == CHOOSE o \in AcceptedOTP(email, code) : TRUE
                 pending == CHOOSE p \in PendingByEmail(email) : TRUE
                 user == create_user(pending.email, pending.password,
                                     pending.mobile_no, TRUE)
             IN  /\ nextJti + 1 <= MaxTokens
                 /\ emailOTP' = delete_otp_after_activation(mark_used(emailOTP, otp), user)
                 /\ customUser' = customUser \cup {user}
                 /\ pendingUser' = pendingUser \ {pending}
                 /\ tokens' = tokens \cup {RefreshFor(user), AccessFor(user)}
                 /\ nextJti' = nextJti + 2
                 /\ verified' = verified \cup {user.email}
                 /\ promotions' = [promotions EXCEPT ![user.email] = @ + 1]
                 /\ credential' = [credential EXCEPT ![user.email] = staged[pending.email]]
                 /\ UNCHANGED <<now, ticks, signalsConnected, shopVars, raceVars, blacklistedAccessToken,
                                mailVars, staged, resetVerified, loggedOutAccess,
                                loggedOutRefresh>>
        ELSE IF status \in {404, 500}
        THEN \* the OTP was marked used before the request failed
             /\ emailOTP' = mark_used(emailOTP, CHOOSE o \in AcceptedOTP(email, code) : TRUE)
             /\ UNCHANGED <<now, ticks, signalsConnected, shopVars, raceVars, pendingUser, customUser,
                            blacklistedAccessToken, jwtVars, mailVars, histVars>>
        ELSE UNCHANGED vars

(***************************************************************************)
(* POST otp/verify/, statement by statement.  The view runs in no          *)
(* transaction, so the statements of two requests may interleave.  A       *)
(* request holds the model instances it has read (otp, pending) and writes *)
(* through them by primary key.                                            *)
(***************************************************************************)
\* The row of the table an instance read as unused now stands for, as a
\* set: the same primary key, whatever its is_used has become.
StoredOTP(otp) == {o \in emailOTP : [o EXCEPT !.is_used = FALSE] = otp}

\* Lines 341-350: the fields, the filter(...).first() and the expiry test.
\* A request that is answered 400 ends here and has written nothing.
VerifyOTPView_filter(r, email, code) ==
    /\ verifying[r].pc = "idle"
    /\ email # "" /\ code # ""
    /\ AcceptedOTP(email, code) # {}
    /\ verifying' = [verifying EXCEPT ![r] =
           [pc |-> "filtered", email |-> email, code |-> code,
            otp |-> AcceptedOTP(email, code), pending |-> {}]]
    /\ UNCHANGED <<now, ticks, signalsConnected, shopVars, resend, dbVars, jwtVars,
                   mailVars, histVars>>

\* Line 352: otp.mark_used(), save(update_fields=["is_used"]) of the held
\* instance: an UPDATE by primary key, which raises DatabaseError (500)
\* when the row is gone.
VerifyOTPView_mark_used(r) ==
    /\ verifying[r].pc = "filtered"
    /\ LET otp == CHOOSE o \in verifying[r].otp : TRUE
       IN  IF StoredOTP(otp) = {}
           THEN /\ verifying' = [verifying EXCEPT ![r].pc = "500"]
                /\ UNCHANGED emailOTP
           ELSE /\ emailOTP' = mark_used(emailOTP, CHOOSE o \in StoredOTP(otp) : TRUE)
                /\ verifying' = [verifying EXCEPT ![r].pc = "marked"]
    /\ UNCHANGED <<now, ticks, signalsConnected, shopVars, resend, pendingUser, customUser,
                   blacklistedAccessToken, jwtVars, mailVars, histVars>>

\* Lines 354-357: PendingUser.objects.get(email=email), 404 on DoesNotExist.
VerifyOTPView_get_pending(r) ==
    /\ verifying[r].pc = "marked"
    /\ LET pending == PendingByEmail(verifying[r].email)
       IN  IF pending = {}
           THEN verifying' = [verifying EXCEPT ![r].pc = "404"]
           ELSE verifying' = [verifying EXCEPT ![r].pc = "pending",
                                               ![r].pending = {CHOOSE p \in pending : TRUE}]
    /\ UNCHANGED <<now, ticks, signalsConnected, shopVars, resend, dbVars, jwtVars,
                   mailVars, histVars>>

\* Lines 359-365: CustomUser.objects.create_user(...).  The INSERT is
\* refused by a unique constraint (IntegrityError, uncaught: 500); a saved
\* active user fires the post_save receiver.
VerifyOTPView_create_user(r) ==
    /\ verifying[r].pc = "pending"
    /\ LET pending == CHOOSE p \in verifying[r].pending : TRUE
           user == create_user(pending.email, pending.password, pending.mobile_no, TRUE)
       IN  IF IntegrityError(user)
           THEN /\ verifying' = [verifying EXCEPT ![r].pc = "500"]
                /\ UNCHANGED <<emailOTP, customUser, histVars>>
           ELSE /\ customUser' = customUser \cup {user}
                /\ emailOTP' = delete_otp_after_activation(emailOTP, user)
                /\ verified' = verified \cup {user.email}
                /\ promotions' = [promotions EXCEPT ![user.email] = @ + 1]
                /\ credential' = [credential EXCEPT ![user.email] = staged[pending.email]]
                /\ verifying' = [verifying EXCEPT ![r].pc = "created"]
                /\ UNCHANGED <<staged, resetVerified, loggedOutAccess, loggedOutRefresh>>
    /\ UNCHANGED <<now, ticks, signalsConnected, shopVars, resend, pendingUser,
                   blacklistedAccessToken, jwtVars, mailVars>>

\* Lines 367-386: pending.delete(), a DELETE by primary key that may find
\* the row gone, then RefreshToken.for_user(user) and the 200 response
\* carrying the tokens.
VerifyOTPView_respond(r) ==
    /\ verifying[r].pc = "created"
    /\ nextJti + 1 <= MaxTokens
    /\ LET pending == CHOOSE p \in verifying[r].pending : TRUE
           user == create_user(pending.email, pending.password, pending.mobile_no, TRUE)
       IN  /\ pendingUser' = pendingUser \ verifying[r].pending
           /\ tokens' = tokens \cup {RefreshFor(user), AccessFor(user)}
           /\ nextJti' = nextJti + 2
    /\ verifying' = [verifying EXCEPT ![r].pc = "200"]
    /\ UNCHANGED <<now, ticks, signalsConnected, shopVars, resend, customUser, emailOTP,
                   blacklistedAccessToken, mailVars, histVars>>

(***************************************************************************)
(* POST login/                                                             *)
(***************************************************************************)
\* LoginSerializer.validate without its is_active test.
LoginSerializer_validate_any(login, password) ==
    /\ login # "" /\ password # NoPassword
    /\ UserByEmailIexact(login) # {}
    /\ LET user == CHOOSE u \in UserByEmailIexact(login) : TRUE
       IN  check_password(password, user.password)

\* LoginSerializer.validate: every login of the alphabet holds an "@", so
\* the user is resolved by email__iexact.
LoginSerializer_validate(login, password) ==
    /\ login # "" /\ password # NoPassword
    /\ UserByEmailIexact(login) # {}
    /\ LET user == CHOOSE u \in UserByEmailIexact(login) : TRUE
       IN  /\ check_password(password, user.password)
           /\ user.is_active

LoginView_status(login, password) ==
    IF LoginSerializer_validate(login, password) THEN 200 ELSE 400

LoginView_post(login, password) ==
    IF LoginView_status(login, password) = 200
    THEN LET user == CHOOSE u \in UserByEmailIexact(login) : TRUE
         IN  /\ nextJti + 1 <= MaxTokens
             /\ tokens' = tokens \cup {RefreshFor(user), AccessFor(user)}
             /\ nextJti' = nextJti + 2
             /\ UNCHANGED <<now, ticks, signalsConnected, shopVars, raceVars, dbVars, mailVars, histVars>>
    ELSE UNCHANGED vars

(***************************************************************************)
(* POST token/                                                             *)
(***************************************************************************)
\* simplejwt's TokenObtainPairView as routed by accounts/urls.py: the
\* serializer calls authenticate(email=..., password=...).
\* EmailOrUsernameModelBackend is handed no username and returns None;
\* ModelBackend resolves the user by its natural key (the exact email),
\* checks the password and refuses an inactive user.
TokenObtainPairView_status(email, password) ==
    IF \E u \in UserByEmail(email) : check_password(password, u.password) /\ u.is_active
    THEN 200 ELSE 401

TokenObtainPairView_post(email, password) ==
    IF TokenObtainPairView_status(email, password) = 200
    THEN LET user == CHOOSE u \in UserByEmail(email) : TRUE
         IN  /\ nextJti + 1 <= MaxTokens
             /\ tokens' = tokens \cup {RefreshFor(user), AccessFor(user)}
             /\ nextJti' = nextJti + 2
             /\ UNCHANGED <<now, ticks, signalsConnected, shopVars, raceVars, dbVars, mailVars, histVars>>
    ELSE UNCHANGED vars

(***************************************************************************)
(* POST token/refresh/                                                     *)
(***************************************************************************)
\* RefreshToken(raw).verify(): signature, type and expiry.  The blacklist
\* app is not installed (settings.py INSTALLED_APPS), so no blacklist check.
RefreshToken_valid(jti) ==
    /\ jti \in {t.jti : t \in RefreshTokens}
    /\ now < TokenByJti(jti).exp

\* TokenRefreshSerializer through CookieTokenRefreshView.post: only the new
\* access token is returned; the rotated refresh token is dropped.  A
\* TokenError is not caught by this view.
CookieTokenRefreshView_status(cookie) ==
    IF cookie = NoToken THEN 400
    ELSE IF ~RefreshToken_valid(cookie) THEN 500
    ELSE 200

CookieTokenRefreshView_post(cookie) ==
    IF CookieTokenRefreshView_status(cookie) = 200
    THEN /\ nextJti <= MaxTokens
         /\ tokens' = tokens \cup {Token(nextJti, "access", TokenByJti(cookie).user,
                                         now + ACCESS_TOKEN_LIFETIME)}
         /\ nextJti' = nextJti + 1
         /\ UNCHANGED <<now, ticks, signalsConnected, shopVars, raceVars, dbVars, mailVars, histVars>>
    ELSE UNCHANGED vars

(***************************************************************************)
(* CustomJWTAuthentication                                                 *)
(***************************************************************************)
\* authenticate without its look-up in BlacklistedAccessToken.
is_blacklisted_never(jti) == FALSE

\* the blacklist check of authenticate
is_blacklisted(jti) == jti \in blacklistedAccessToken

\* CustomJWTAuthentication.authenticate for the bearer token jti: the email
\* of the authenticated user, "" when no header was sent (anonymous), or
\* "failed" for AuthenticationFailed.  get_validated_token raises
\* InvalidToken, which is an AuthenticationFailed and not a TokenError, so
\* the refresh branch of the except clause is never entered.
authenticate(jti) ==
    IF jti = NoToken THEN ""
    ELSE LET t == TokenByJti(jti)
         IN  IF t.type # "access" \/ now >= t.exp THEN "failed"
             ELSE IF is_blacklisted(jti) THEN "failed"
             ELSE IF \E u \in UserByEmail(t.user) : u.is_active THEN t.user
             ELSE "failed"

\* The cookies a request carries: LoginView sets the refresh token under
\* SIMPLE_JWT["AUTH_COOKIE"], "refresh_token"; a client may also send it
\* under the name authenticate reads, "refresh".
NoCookies == [refresh_token |-> NoToken, refresh |-> NoToken]
LoginCookies(jti) == [refresh_token |-> jti, refresh |-> NoToken]
RefreshCookies(jti) == [refresh_token |-> NoToken, refresh |-> jti]

\* JWTAuthentication.get_validated_token(raw_token): the exception it
\* raises, or "none".  simplejwt catches the TokenError of the token class
\* itself and raises InvalidToken, a subclass of AuthenticationFailed.
get_validated_token(jti) ==
    LET t == TokenByJti(jti)
    IN  IF t.type # "access" \/ now >= t.exp THEN "InvalidToken" ELSE "none"

\* except TokenError: the classes the clause catches.
IsTokenError(exception) == exception = "TokenError"

\* CustomJWTAuthentication.authenticate(request), for the bearer token jti
\* and the cookies of the request: the email of the authenticated user, ""
\* for an anonymous request, "failed" for AuthenticationFailed.  The second
\* field is request.META["NEW_ACCESS_TOKEN"]: set (TRUE) only inside the
\* except clause.
CustomJWTAuthentication_authenticate(jti, cookies) ==
    IF jti = NoToken THEN [user |-> "", new_access |-> FALSE]
    ELSE LET exception == get_validated_token(jti)
             t == TokenByJti(jti)
             UserOf(email, refreshed) ==
                 IF \E u \in UserByEmail(email) : u.is_active
                 THEN [user |-> email, new_access |-> refreshed]
                 ELSE [user |-> "failed", new_access |-> refreshed]
         IN  IF exception = "none"
             THEN IF is_blacklisted(jti) THEN [user |-> "failed", new_access |-> FALSE]
                  ELSE UserOf(t.user, FALSE)
             ELSE IF IsTokenError(exception)
             THEN \* lines 25-45: refresh from the cookie "refresh"
                  IF cookies.refresh = NoToken \/ ~RefreshToken_valid(cookies.refresh)
                  THEN [user |-> "failed", new_access |-> FALSE]
                  ELSE UserOf(TokenByJti(cookies.refresh).user, TRUE)
             ELSE \* InvalidToken leaves authenticate: 401
                  [user |-> "failed", new_access |-> FALSE]

(***************************************************************************)
(* POST logout/                                                            *)
(***************************************************************************)
LogoutView_status(access) ==
    IF authenticate(access) \in {"", "failed"} THEN 401 ELSE 200

\* RefreshToken.blacklist() does not exist without the token_blacklist app:
\* the AttributeError is swallowed and no table is written.
LogoutView_post(access, cookie) ==
    IF LogoutView_status(access) = 200
    THEN /\ loggedOutAccess' = loggedOutAccess \cup {access}
         /\ loggedOutRefresh' = loggedOutRefresh \cup ({cookie} \ {NoToken})
         /\ UNCHANGED <<now, ticks, signalsConnected, shopVars, raceVars, dbVars, jwtVars, mailVars,
                        verified, promotions, staged, credential, resetVerified>>
    ELSE UNCHANGED vars

(***************************************************************************)
(* PATCH profile/                                                          *)
(***************************************************************************)
\* PATCH of mobile_no: authentication, then the ModelSerializer's unique
\* validator.
ProfileView_status(access, mobile_no) ==
    LET email == authenticate(access)
    IN  IF email \in {"", "failed"} THEN 401
        ELSE IF \E u \in customUser : u.email # email /\ u.mobile_no = mobile_no
        THEN 400
        ELSE 200

\* ProfileView.update: instance.save(), which fires post_save.
ProfileView_update(access, mobile_no) ==
    IF ProfileView_status(access, mobile_no) = 200
    THEN LET user == CHOOSE u \in UserByEmail(authenticate(access)) : TRUE
             saved == [user EXCEPT !.mobile_no = mobile_no]
         IN  /\ customUser' = (customUser \ {user}) \cup {saved}
             /\ emailOTP' = delete_otp_after_activation(emailOTP, saved)
             /\ UNCHANGED <<now, ticks, signalsConnected, shopVars, raceVars, pendingUser,
                            blacklistedAccessToken, jwtVars, mailVars, histVars>>
    ELSE UNCHANGED vars

\* The admin site adds a row to BlacklistedAccessToken.
BlacklistedAccessTokenAdmin_add(jti) ==
    /\ jti \notin blacklistedAccessToken
    /\ blacklistedAccessToken' = blacklistedAccessToken \cup {jti}
    /\ UNCHANGED <<now, ticks, signalsConnected, shopVars, raceVars, pendingUser, customUser, emailOTP,
                   jwtVars, mailVars, histVars>>

(***************************************************************************)
(* POST password/forgot/, password/verify-otp/, password/reset/            *)
(***************************************************************************)
SendPasswordResetOTPView_status(email) ==
    LET otps == OTPs(email, "password_reset")
    IN  IF email = "" THEN 400
        ELSE IF UserByEmail(email) = {} THEN 404
        ELSE IF otps # {} /\ in_cooldown(Latest(otps))
        THEN 429
        ELSE 200

SendPasswordResetOTPView_post(email, otp_code) ==
    LET otp == EmailOTPRow(email, otp_code, "password_reset",
                           now, now + OTP_EXPIRY_SECONDS)
    IN  IF SendPasswordResetOTPView_status(email) = 200
        THEN /\ mailsSent < MaxOTPs
             /\ emailOTP' = emailOTP \cup {otp}
             /\ mailsSent' = mailsSent + 1
             /\ UNCHANGED <<now, ticks, signalsConnected, shopVars, raceVars, pendingUser, customUser,
                            blacklistedAccessToken, jwtVars, histVars>>
        ELSE UNCHANGED vars

VerifyPasswordResetOTPView_status(email, otp_code) ==
    LET otps == UnusedOTPs(email, otp_code, "password_reset")
    IN  IF email = "" \/ otp_code = "" THEN 400
        ELSE IF otps = {} THEN 400
        ELSE IF is_expired(Latest(otps)) THEN 400
        ELSE 200

VerifyPasswordResetOTPView_post(email, otp_code) ==
    IF VerifyPasswordResetOTPView_status(email, otp_code) = 200
    THEN /\ emailOTP' = mark_used(emailOTP,
                            Latest(UnusedOTPs(email, otp_code, "password_reset")))
         /\ resetVerified' = resetVerified \cup {email}
         /\ UNCHANGED <<now, ticks, signalsConnected, shopVars, raceVars, pendingUser, customUser,
                        blacklistedAccessToken, jwtVars, mailVars, verified, promotions,
                        staged, credential, loggedOutAccess, loggedOutRefresh>>
    ELSE UNCHANGED vars

\* dict.get on the validated data of PasswordResetSerializer
Get(data, key) == IF key \in DOMAIN data THEN data[key] ELSE NoPassword

\* PasswordResetSerializer.validate on the validated fields: valid or not,
\* and the "user" and "new_password" entries as the code sets them.
PasswordResetSerializer_validate(data) ==
    LET email == data["email"]
        password == Get(data, "password")
        password2 == Get(data, "password2")
    IN  IF email = "" \/ password # password2 \/ UserByEmail(email) = {}
        THEN [valid |-> FALSE, user |-> "", new_password |-> NoPassword]
        ELSE [valid |-> TRUE, user |-> email, new_password |-> password]

ResetPasswordView_status(email, new_password, confirm_password) ==
    IF PasswordResetSerializer_validate(
           [email |-> email, new_password |-> new_password,
            confirm_password |-> confirm_password]).valid
    THEN 200 ELSE 400

ResetPasswordView_post(email, new_password, confirm_password) ==
    LET data == PasswordResetSerializer_validate(
                    [email |-> email, new_password |-> new_password,
                     confirm_password |-> confirm_password])
    IN  IF ResetPasswordView_status(email, new_password, confirm_password) = 200
        THEN LET user == CHOOSE u \in UserByEmail(data.user) : TRUE
                 saved == [user EXCEPT !.password = make_password(data.new_password)]
             IN  /\ customUser' = (customUser \ {user}) \cup {saved}
                 /\ emailOTP' = delete_otp_after_activation(emailOTP, saved)
                                    \ OTPs(user.email, "password_reset")
                 /\ resetVerified' = resetVerified \ {user.email}
                 /\ credential' = [credential EXCEPT ![user.email] = NoPassword]
                 /\ UNCHANGED <<now, ticks, signalsConnected, shopVars, raceVars, pendingUser,
                                blacklistedAccessToken, jwtVars, mailVars, verified,
                                promotions, staged, loggedOutAccess, loggedOutRefresh>>
        ELSE UNCHANGED vars

----------------------------------------------------------------------------
(***************************************************************************)
(* The requests, with their inputs.                                        *)
(***************************************************************************)
Register ==
    \E e \in RawEmails, p \in Passwords, p2 \in Passwords, m \in Mobiles, c \in Codes :
        RegisterView_post(e, p, p2, m, c)
Resend == \E e \in RawEmails, c \in Codes : ResendOTPView_post(e, c)
Verify == \E e \in RawEmails, c \in Codes : VerifyOTPView_post(e, c)
Login == \E e \in RawEmails, p \in PasswordInputs : LoginView_post(e, p)
ObtainPair == \E e \in RawEmails, p \in PasswordInputs : TokenObtainPairView_post(e, p)
Refresh == \E c \in RefreshInputs : CookieTokenRefreshView_post(c)
Logout == \E a \in AccessInputs, c \in RefreshInputs : LogoutView_post(a, c)
ProfilePatch == \E a \in AccessInputs, m \in Mobiles : ProfileView_update(a, m)
AdminBlacklist == \E a \in AccessInputs \ {NoToken} : BlacklistedAccessTokenAdmin_add(a)
Forgot == \E e \in RawEmails, c \in Codes : SendPasswordResetOTPView_post(e, c)
VerifyReset == \E e \in RawEmails, c \in Codes : VerifyPasswordResetOTPView_post(e, c)
Reset ==
    \E e \in RawEmails, p \in Passwords, p2 \in Passwords : ResetPasswordView_post(e, p, p2)

\* Registration: register, otp/resend, otp/verify, and login.
NextRegistration ==
    \/ Tick
    \/ Register
    \/ Resend
    \/ Verify
    \/ Login

SpecRegistration == Init /\ [][NextRegistration]_vars

\* The endpoints that write registration OTP rows.
NextOtp ==
    \/ Tick
    \/ Register
    \/ Resend
    \/ Verify

SpecOtp == Init /\ [][NextOtp]_vars

\* Every endpoint that reads or writes EmailOTP.
NextAccount ==
    \/ Tick
    \/ Register
    \/ Resend
    \/ Verify
    \/ Login
    \/ Forgot
    \/ VerifyReset
    \/ Reset

SpecAccount == Init /\ [][NextAccount]_vars

\* Every endpoint that signs or reads a JWT or writes CustomUser.
\* One registration, with fixed inputs, brings the account the tokens are for.
RegisterOne == RegisterView_post("a@x", <<"p1">>, <<"p1">>, "m1", "111111")
VerifyOne == VerifyOTPView_post("a@x", "111111")

NextJwt ==
    \/ Tick
    \/ RegisterOne
    \/ VerifyOne
    \/ Login
    \/ ObtainPair
    \/ Refresh
    \/ ProfilePatch
    \/ AdminBlacklist
    \/ Reset

SpecJwt == Init /\ [][NextJwt]_vars

\* The password-reset endpoints, for the account of the initial state.
NextReset ==
    \/ Tick
    \/ Forgot
    \/ VerifyReset
    \/ Reset

SpecReset == Init /\ [][NextReset]_vars

\* Two otp/resend/ requests run statement by statement, after one
\* registration.
ResendCheck == \E r \in Requests, e \in RawEmails : ResendOTPView_check(r, e)
ResendDelete == \E r \in Requests : ResendOTPView_delete(r)
ResendCreate == \E r \in Requests : ResendOTPView_create(r)

NextRace ==
    \/ Tick
    \/ RegisterOne
    \/ Verify
    \/ ResendCheck
    \/ ResendDelete
    \/ ResendCreate

SpecRace == Init /\ [][NextRace]_vars

\* Two otp/verify/ requests run statement by statement, after one
\* registration.
VerifyFilter == \E r \in Requests, e \in Emails, c \in Codes : VerifyOTPView_filter(r, e, c)
VerifyMarkUsed == \E r \in Requests : VerifyOTPView_mark_used(r)
VerifyGetPending == \E r \in Requests : VerifyOTPView_get_pending(r)
VerifyCreateUser == \E r \in Requests : VerifyOTPView_create_user(r)
VerifyRespond == \E r \in Requests : VerifyOTPView_respond(r)

NextVerifyRace ==
    \/ Tick
    \/ RegisterOne
    \/ VerifyFilter
    \/ VerifyMarkUsed
    \/ VerifyGetPending
    \/ VerifyCreateUser
    \/ VerifyRespond

SpecVerifyRace == Init /\ [][NextVerifyRace]_vars

\* The same with logout/, which writes no table: only the history of the
\* tokens a logout was made with.
NextLogout ==
    \/ NextJwt
    \/ Logout

SpecLogout == Init /\ [][NextLogout]_vars

----------------------------------------------------------------------------
(***************************************************************************)
(* Coupons, orders and payments (coupons/models.py, coupons/views.py,      *)
(* oders/models.py, oders/serializers.py, oders/views.py).                 *)
(*                                                                         *)
(* A DecimalField(decimal_places=2) is an integer number of cents in a     *)
(* stored row.  What the Python code computes before the row is written is *)
(* an exact Decimal, here an integer number of hundredths of a cent.  The  *)
(* requester of a view is the user its authentication class resolved       *)
(* (IsAuthenticated); order items are rows of another table that none of   *)
(* these handlers reads, and the requests carry an empty item list.        *)
(***************************************************************************)
Totals == {3, 201}
NoCoupon == ""
NoLimit == <<>>
NoOrder == 0

\* The coupons the staff enter on the admin site: a percentage coupon with
\* a minimum purchase and one use, a fixed coupon that opens later, and the
\* same fixed coupon entered with its single use already counted.
CouponForms ==
    { [code |-> "HALF", discount_type |-> "percentage", discount_value |-> 50,
       min_purchase_amount |-> 100, valid_from |-> 0, valid_to |-> 600,
       active |-> TRUE, usage_limit |-> <<1>>, used_count |-> 0],
      [code |-> "FLAT", discount_type |-> "fixed", discount_value |-> 5,
       min_purchase_amount |-> 0, valid_from |-> 60, valid_to |-> 1200,
       active |-> TRUE, usage_limit |-> NoLimit, used_count |-> 0],
      [code |-> "FLAT", discount_type |-> "fixed", discount_value |-> 5,
       min_purchase_amount |-> 0, valid_from |-> 60, valid_to |-> 1200,
       active |-> TRUE, usage_limit |-> <<1>>, used_count |-> 1] }

CouponCodes == {f.code : f \in CouponForms}
\* What a client can type as a code: a code, a code in lower case, a code
\* no coupon has.
RawCodes == {"HALF", "half", "FLAT", "GONE"}

\* code__iexact on the codes of the alphabet.
Upper(s) ==
    CASE s = "half" -> "HALF"
      [] OTHER -> s

\* An exact Decimal from a number of cents.
Exact(cents) == cents * 100

\* A Decimal written to a DecimalField(decimal_places=2), or rendered by
\* DRF's DecimalField(decimal_places=2): quantize to cents under the
\* default context, ROUND_HALF_EVEN.
quantize(x) ==
    LET q == x \div 100
        r == x % 100
    IN  IF r < 50 THEN q
        ELSE IF r > 50 THEN q + 1
        ELSE IF q % 2 = 0 THEN q ELSE q + 1

OrderRow(id, customer, status, total_price, couponCode, discount_amount, final_price) ==
    [id |-> id, customer |-> customer, status |-> status, total_price |-> total_price,
     coupon |-> couponCode, discount_amount |-> discount_amount,
     final_price |-> final_price]

PaymentRow(order_id, amount) == [order |-> order_id, amount |-> amount]

CouponByCode(code) == CHOOSE c \in coupon : c.code = code
OrderById(id) == CHOOSE o \in order : o.id = id

\* Coupon.is_valid without the minimum-purchase test.
is_valid_any_total(c, order_total) ==
    /\ c.active
    /\ ~(c.valid_from > now \/ c.valid_to < now)
    /\ ~(c.usage_limit # NoLimit /\ c.used_count >= c.usage_limit[1])

\* Coupon.is_valid(order_total), order_total in cents.
is_valid(c, order_total) ==
    /\ c.active
    /\ ~(c.valid_from > now \/ c.valid_to < now)
    /\ ~(c.usage_limit # NoLimit /\ c.used_count >= c.usage_limit[1])
    /\ ~(order_total < c.min_purchase_amount)

\* Coupon.apply_discount(total_amount): the discounted total, exact.
apply_discount(c, total_amount) ==
    IF ~is_valid(c, total_amount) THEN Exact(total_amount)
    ELSE LET discount == IF c.discount_type = "percentage"
                            THEN c.discount_value * total_amount
                            ELSE Exact(c.discount_value)
             discounted_total == Exact(total_amount) - discount
         IN  IF discounted_total > 0 THEN discounted_total ELSE 0

\* Order.apply_coupon on the instance in memory: total_price in cents,
\* discount_amount and final_price exact.
apply_coupon(o) ==
    IF o.coupon # NoCoupon /\ is_valid(CouponByCode(o.coupon), o.total_price)
    THEN LET discounted_total == apply_discount(CouponByCode(o.coupon), o.total_price)
         IN  [o EXCEPT !.discount_amount = Exact(o.total_price) - discounted_total,
                       !.final_price = discounted_total]
    ELSE [o EXCEPT !.discount_amount = 0, !.final_price = Exact(o.total_price)]

\* Order.save(): apply_coupon, then the row as the table holds it.
Order_save(o) ==
    LET a == apply_coupon(o)
    IN  [a EXCEPT !.discount_amount = quantize(a.discount_amount),
                  !.final_price = quantize(a.final_price)]

\* CouponAdmin, add form: code is unique.
CouponAdmin_add(form) ==
    /\ ~\E c \in coupon : c.code = form.code
    /\ coupon' = coupon \cup {form}
    /\ UNCHANGED <<now, ticks, accountVars, order, payment, nextOrderId>>

\* CouponAdmin, change form: the staff switch a coupon on or off.
CouponAdmin_change(code, active) ==
    /\ \E c \in coupon : c.code = code
    /\ coupon' = {IF c.code = code THEN [c EXCEPT !.active = active] ELSE c : c \in coupon}
    /\ UNCHANGED <<now, ticks, accountVars, order, payment, nextOrderId>>

\* OrderSerializer validation of the coupon key: null or an existing coupon.
OrderSerializer_valid(couponCode) ==
    couponCode = NoCoupon \/ \E c \in coupon : c.code = couponCode

OrderListCreateView_status(user, total_price, couponCode) ==
    IF OrderSerializer_valid(couponCode) THEN 201 ELSE 400

\* OrderListCreateView.post -> OrderSerializer.create: Order.objects.create
\* saves the row, then apply_coupon() and save() run once more.
OrderListCreateView_post(user, total_price, couponCode) ==
    /\ nextOrderId <= MaxOrders
    /\ IF OrderListCreateView_status(user, total_price, couponCode) = 201
       THEN LET created == Order_save(OrderRow(nextOrderId, user, "pending", total_price,
                                               couponCode, 0, 0))
                again == Order_save(apply_coupon(created))
            IN  /\ order' = order \cup {again}
                /\ nextOrderId' = nextOrderId + 1
                /\ UNCHANGED <<now, ticks, accountVars, coupon, payment>>
       ELSE UNCHANGED vars

OrderDetailView_status(user, id, couponCode) ==
    IF ~\E o \in order : o.id = id /\ o.customer = user THEN 404
    ELSE IF ~OrderSerializer_valid(couponCode) THEN 400
    ELSE 200

\* OrderDetailView.patch -> ModelSerializer.update: setattr, instance.save().
OrderDetailView_update(user, id, total_price, couponCode) ==
    IF OrderDetailView_status(user, id, couponCode) = 200
    THEN /\ order' = (order \ {OrderById(id)}) \cup
                     {Order_save([OrderById(id) EXCEPT !.total_price = total_price,
                                                       !.coupon = couponCode])}
         /\ UNCHANGED <<now, ticks, accountVars, coupon, payment, nextOrderId>>
    ELSE UNCHANGED vars

\* OrderDetailView.delete: the order goes, and its payment with it (CASCADE).
OrderDetailView_destroy(user, id) ==
    IF \E o \in order : o.id = id /\ o.customer = user
    THEN /\ order' = order \ {OrderById(id)}
         /\ payment' = {p \in payment : p.order # id}
         /\ UNCHANGED <<now, ticks, accountVars, coupon, nextOrderId>>
    ELSE UNCHANGED vars

\* ApplyCouponView.post.  With a coupon and an order found, line 85 reads
\* coupon.discount, an attribute Coupon does not have: AttributeError, which
\* the server answers with 500 before any statement that writes.
ApplyCouponView_status(user, code, order_id) ==
    IF code = NoCoupon \/ order_id = NoOrder THEN 400
    ELSE IF ~\E c \in coupon : Upper(c.code) = Upper(code) THEN 404
    ELSE LET c == CHOOSE c \in coupon : Upper(c.code) = Upper(code)
         IN  IF ~c.active THEN 400
             ELSE IF now < c.valid_from THEN 400
             ELSE IF now > c.valid_to THEN 400
             ELSE IF ~\E o \in order : o.id = order_id /\ o.customer = user THEN 404
             ELSE 500

ApplyCouponView_post(user, code, order_id) ==
    /\ ApplyCouponView_status(user, code, order_id) \in {400, 404, 500}
    /\ UNCHANGED vars

\* PaymentSerializer.is_valid: the body names an order (a primary key that
\* exists) no payment is recorded for (UniqueValidator of the one-to-one).
PaymentSerializer_valid(body_order) ==
    /\ \E o \in order : o.id = body_order
    /\ ~\E p \in payment : p.order = body_order

PaymentCreateView_status(user, order_id, body_order) ==
    IF ~\E o \in order : o.id = order_id /\ o.customer = user THEN 404
    ELSE IF \E p \in payment : p.order = order_id THEN 400
    ELSE IF ~PaymentSerializer_valid(body_order) THEN 400
    ELSE 201

\* PaymentCreateView.post: the payment takes the final_price the order was
\* loaded with; then order.status is set and order.save() recomputes the
\* prices.
PaymentCreateView_post(user, order_id, body_order) ==
    IF PaymentCreateView_status(user, order_id, body_order) = 201
    THEN LET o == OrderById(order_id)
         IN  /\ payment' = payment \cup {PaymentRow(order_id, o.final_price)}
             /\ order' = (order \ {o}) \cup {Order_save([o EXCEPT !.status = "processing"])}
             /\ UNCHANGED <<now, ticks, accountVars, coupon, nextOrderId>>
    ELSE UNCHANGED vars

OrderIds == 1..MaxOrders
CouponAdd == \E form \in CouponForms : CouponAdmin_add(form)
CouponChange == \E code \in CouponCodes, active \in BOOLEAN : CouponAdmin_change(code, active)
OrderCreate ==
    \E user \in Emails, t \in Totals, code \in CouponCodes \cup {NoCoupon} :
        OrderListCreateView_post(user, t, code)
OrderPatch ==
    \E user \in Emails, id \in OrderIds, t \in Totals, code \in CouponCodes \cup {NoCoupon} :
        OrderDetailView_update(user, id, t, code)
OrderDelete == \E user \in Emails, id \in OrderIds : OrderDetailView_destroy(user, id)
ApplyCoupon ==
    \E user \in Emails, code \in RawCodes \cup {NoCoupon}, id \in OrderIds \cup {NoOrder} :
        ApplyCouponView_post(user, code, id)
Pay ==
    \E user \in Emails, id \in OrderIds, body \in OrderIds \cup {NoOrder} :
        PaymentCreateView_post(user, id, body)

\* The coupon and order handlers, with one customer placing the orders.
OrderCreateOne ==
    \E t \in Totals, code \in CouponCodes \cup {NoCoupon} :
        OrderListCreateView_post("a@x", t, code)
OrderPatchOne ==
    \E id \in OrderIds, t \in Totals, code \in CouponCodes \cup {NoCoupon} :
        OrderDetailView_update("a@x", id, t, code)

NextCoupon ==
    \/ Tick
    \/ CouponAdd
    \/ CouponChange
    \/ OrderCreateOne
    \/ OrderPatchOne
    \/ ApplyCoupon

SpecCoupon == Init /\ [][NextCoupon]_vars

\* The payment handler, for orders of 2.01 placed with the coupon HALF.
OrderCreateHalf == OrderListCreateView_post("a@x", 201, "HALF")

NextPayment ==
    \/ Tick
    \/ CouponAdd
    \/ CouponChange
    \/ OrderCreateHalf
    \/ OrderDelete
    \/ Pay

SpecPayment == Init /\ [][NextPayment]_vars

\* Every endpoint of accounts/urls.py that the model covers, and the coupon,
\* order and payment handlers.
Next ==
    \/ Tick
    \/ Register
    \/ Resend
    \/ Verify
    \/ Login
    \/ ObtainPair
    \/ Refresh
    \/ Logout
    \/ ProfilePatch
    \/ AdminBlacklist
    \/ Forgot
    \/ VerifyReset
    \/ Reset
    \/ CouponAdd
    \/ CouponChange
    \/ OrderCreate
    \/ OrderPatch
    \/ OrderDelete
    \/ ApplyCoupon
    \/ Pay

Spec == Init /\ [][Next]_vars

----------------------------------------------------------------------------
(***************************************************************************)
(* The claims.                                                             *)
(***************************************************************************)
\* An unused, unexpired registration OTP of email e with code c exists.
MatchingOTP(e, c) ==
    \E o \in emailOTP :
        /\ o.email = e /\ o.code = c /\ o.purpose = "registration"
        /\ ~o.is_used /\ now < o.expires_at

\* C1: over register, otp/resend and otp/verify requests a CustomUser row
\* appears only in a VerifyOTPView step that presented a matching, unused,
\* unexpired registration OTP of that email; that step deletes the
\* PendingUser row of the email; a PendingUser row disappears only in such a
\* step; a CustomUser row never disappears, so no email is promoted twice.
C1_PromotedOnce ==
    [][\A e \in Emails :
          /\ (UserByEmail(e) = {} /\ UserByEmail(e)' # {}) =>
                /\ \E c \in Codes : MatchingOTP(e, c) /\ VerifyOTPView_post(e, c)
                /\ PendingByEmail(e) # {} /\ PendingByEmail(e)' = {}
                /\ promotions'[e] = 1
          /\ (PendingByEmail(e) # {} /\ PendingByEmail(e)' = {}) =>
                (UserByEmail(e) = {} /\ UserByEmail(e)' # {})
          /\ UserByEmail(e) # {} => UserByEmail(e)' # {}
          /\ promotions'[e] <= 1]_vars

\* C1 witness: a@x has been promoted once and its PendingUser row is gone.
C1_Witness ==
    /\ promotions["a@x"] = 1
    /\ PendingByEmail("a@x") = {}
    /\ \E u \in UserByEmail("a@x") : u.is_active

\* The registration OTP that (e, c) matches has expired.
ExpiredMatch(e, c) ==
    /\ UnusedOTPs(e, c, "registration") # {}
    /\ \A o \in UnusedOTPs(e, c, "registration") : o.expires_at <= now

\* In this state a verification with an expired OTP is answered 400.
ExpiredRefused ==
    \A e \in RawEmails, c \in Codes :
        ExpiredMatch(e, c) => VerifyOTPView_status(e, c) = 400

\* C3: a VerifyOTPView request whose matching registration OTP has
\* expires_at <= now is answered 400, and creates no CustomUser, deletes no
\* PendingUser and signs no token.
C3_ExpiredCannotVerify ==
    [][/\ ExpiredRefused
       /\ ExpiredRefused'
       /\ \A e \in RawEmails, c \in Codes :
             (ExpiredMatch(e, c) /\ VerifyOTPView_post(e, c)) =>
                 UNCHANGED <<customUser, pendingUser, tokens>>]_vars

\* C3 witness: the OTP of a pending registration expired at this very
\* instant (expires_at = now), so a verification with it is refused and the
\* PendingUser is still there.
C3_Witness ==
    \E e \in RawEmails, c \in Codes :
        /\ ExpiredMatch(e, c)
        /\ \E o \in UnusedOTPs(e, c, "registration") : o.expires_at = now
        /\ PendingByEmail(e) # {}
        /\ UserByEmail(e) = {}

\* C2: for every email and each of the purposes registration and
\* password_reset, at most one EmailOTP row is both unused and unexpired.
C2_OneLiveOTP ==
    \A e \in Emails, purpose \in {"registration", "password_reset"} :
        Cardinality({o \in OTPs(e, purpose) : ~o.is_used /\ now < o.expires_at}) <= 1

LoginRejectsInactive ==
    \A u \in customUser :
        ~u.is_active =>
            \A login \in {l \in RawEmails : Lower(l) = Lower(u.email)},
               p \in PasswordInputs :
                LoginView_status(login, p) = 400

\* In this state every token was signed for an email whose registration OTP
\* was verified, and every active account is such an email.
ActiveGated ==
    /\ \A t \in tokens : t.user \in verified
    /\ \A u \in customUser : u.is_active => u.email \in verified
    /\ LoginRejectsInactive

BlacklistedRefused ==
    \A jti \in blacklistedAccessToken : authenticate(jti) = "failed"

C8_LogoutInvalidates ==
    /\ \A a \in loggedOutAccess :
           authenticate(a) = "failed" /\ a \in blacklistedAccessToken
    /\ \A r \in loggedOutRefresh : CookieTokenRefreshView_status(r) # 200

\* C9: ResetPasswordView changes the password of an account only if a
\* password_reset OTP of its email was verified and not yet consumed by a
\* reset; without one the request is rejected.
C9_ResetAfterVerify ==
    [][\A e \in Emails :
          /\ (\E u \in UserByEmail(e), v \in UserByEmail(e)' : u.password # v.password)
                => e \in resetVerified
          /\ e \notin resetVerified =>
                \A p \in Passwords : ResetPasswordView_status(e, p, p) = 400]_vars

\* C10: a reset request whose new_password differs from confirm_password
\* leaves the stored password and the EmailOTP rows unchanged.
C10_MismatchRejected ==
    [][\A e \in RawEmails, p \in Passwords, p2 \in Passwords :
          (p # p2 /\ ResetPasswordView_post(e, p, p2)) =>
              UNCHANGED <<customUser, emailOTP>>]_vars

\* C11: a successful reset request for email e with new_password =
\* confirm_password = p leaves p as the stored password of e (a login with
\* e and p succeeds when the account is active) and no password_reset OTP
\* row of e.
C11_ResetSetsPassword ==
    [][\A e \in Emails, p \in Passwords :
          (ResetPasswordView_status(e, p, p) = 200 /\ ResetPasswordView_post(e, p, p)) =>
              /\ \A u \in UserByEmail(e)' :
                     /\ check_password(p, u.password)
                     /\ u.is_active => LoginView_status(e, p)' = 200
              /\ OTPs(e, "password_reset")' = {}]_vars

\* The latest registration OTP of the email a request names was created
\* less than COOLDOWN_SECONDS ago.
RecentOTP(raw) ==
    LET otps == OTPs(Lower(raw), "registration")
    IN  otps # {} /\ now - Latest(otps).created_at < COOLDOWN_SECONDS

\* The registration OTP rows of email e, whatever their is_used flag.
IssuedOTPs(e) == {[o EXCEPT !.is_used = FALSE] : o \in OTPs(e, "registration")}

Register429 ==
    \E raw \in RawEmails, p \in Passwords, m \in Mobiles :
        Lower(raw) = "a@x" /\ RecentOTP(raw) /\ RegisterView_status(raw, p, p, m) = 429

RecentResetOTP(e) ==
    LET otps == OTPs(e, "password_reset")
    IN  otps # {} /\ now - Latest(otps).created_at < 60

\* C13: for the email of an existing user, a password/forgot/ request made
\* less than 60 s after the creation of the email's latest password_reset OTP
\* is answered with 429 and creates no row and sends no mail; any other
\* request is answered with 200, creates exactly one password_reset row,
\* unused and expiring 600 s after its creation, and sends one mail.
C13_ResetCooldown ==
    [][\A e \in RawEmails :
          UserByEmail(e) # {} =>
              /\ RecentResetOTP(e) =>
                     /\ SendPasswordResetOTPView_status(e) = 429
                     /\ \A c \in Codes :
                            SendPasswordResetOTPView_post(e, c) =>
                                UNCHANGED <<emailOTP, mailsSent>>
              /\ ~RecentResetOTP(e) =>
                     /\ SendPasswordResetOTPView_status(e) = 200
                     /\ \A c \in Codes :
                            SendPasswordResetOTPView_post(e, c) =>
                                /\ emailOTP \subseteq emailOTP'
                                /\ emailOTP' \ emailOTP =
                                       {[email |-> e, code |-> c,
                                         purpose |-> "password_reset",
                                         created_at |-> now, expires_at |-> now + 600,
                                         is_used |-> FALSE]}
                                /\ mailsSent' = mailsSent + 1]_vars

\* C13 witness: two password_reset OTPs were created for c@x, the second
\* one 60 s or more after the first, and a further request is now inside
\* the cooldown of the second.
C13_Witness ==
    /\ RecentResetOTP("c@x")
    /\ SendPasswordResetOTPView_status("c@x") = 429
    /\ \E o1, o2 \in OTPs("c@x", "password_reset") :
           o2.created_at >= o1.created_at + 60

\* C14: a VerifyOTPView request that issues tokens found a matching, unused,
\* unexpired registration OTP; when it answers, no unused registration OTP
\* with that email and code is left (the row is marked used or deleted), the
\* CustomUser of the email exists and is active, and the PendingUser is
\* deleted; a VerifyOTPView request with an error status issues no token.
C14_VerifyOrder ==
    [][\A e \in RawEmails, c \in Codes :
          /\ (VerifyOTPView_post(e, c) /\ tokens' # tokens) =>
                /\ MatchingOTP(e, c)
                /\ VerifyOTPView_status(e, c) = 200
                /\ UnusedOTPs(e, c, "registration")' = {}
                /\ \E u \in UserByEmail(e)' :
                       /\ u.is_active
                       /\ \A t \in tokens' \ tokens : t.user = u.email
                /\ PendingByEmail(e) # {}
                /\ PendingByEmail(e)' = {}
          /\ (VerifyOTPView_post(e, c) /\ VerifyOTPView_status(e, c) # 200) =>
                UNCHANGED <<tokens, customUser, pendingUser>>]_vars

\* C14 witness: a@x was promoted and holds its two tokens, and the OTP that
\* was presented is still stored, marked used.
C14_Witness ==
    /\ \E o \in OTPs("a@x", "registration") : o.is_used
    /\ \E u \in UserByEmail("a@x") : u.is_active
    /\ PendingByEmail("a@x") = {}
    /\ Cardinality({t \in tokens : t.user = "a@x"}) = 2

\* The registration OTP rows of email e that requests r1 and r2 created.
RaceRows(e) ==
    {o \in OTPs(e, "registration") : \E r \in Requests :
        resend[r].pc = "done" /\ resend[r].email = e /\ o.code = RequestCode(r)}

\* In this state two registration OTP rows of one email coexist only when
\* two requests both passed their tests before either of them created its
\* row, and then each of them has created a row and sent a mail.
TwoRowsOnlyByRace ==
    \A e \in Emails :
        /\ Cardinality(OTPs(e, "registration")) <= 2
        /\ Cardinality(OTPs(e, "registration")) = 2 =>
               /\ \A r \in Requests : resend[r].pc = "done" /\ resend[r].email = e
               /\ resend["r1"].mails = resend["r2"].mails
               /\ mailsSent = resend["r1"].mails + 2
               /\ RaceRows(e) = OTPs(e, "registration")

Saved == order' \ order

\* C16: after any Order.save() the stored order has discount_amount +
\* final_price = total_price and 0 <= final_price <= total_price; without a
\* coupon, or with a coupon that is not valid for total_price at save time,
\* discount_amount = 0 and final_price = total_price; otherwise final_price
\* is max(total_price - discount, 0), the discount being discount_value
\* percent of total_price or the fixed discount_value.
C16_SaveRecomputes ==
    [][\A o \in Saved :
          /\ o.discount_amount + o.final_price = o.total_price
          /\ 0 <= o.final_price /\ o.final_price <= o.total_price
          /\ IF o.coupon = NoCoupon \/ ~is_valid(CouponByCode(o.coupon), o.total_price)
             THEN o.discount_amount = 0 /\ o.final_price = o.total_price
             ELSE LET c == CouponByCode(o.coupon)
                      discount == IF c.discount_type = "percentage"
                                     THEN c.discount_value * o.total_price
                                     ELSE Exact(c.discount_value)
                  IN  Exact(o.final_price) =
                          IF Exact(o.total_price) - discount > 0
                          THEN Exact(o.total_price) - discount ELSE 0]_vars

\* The four conditions of the claim, for the coupon c and an order total.
CouponActive(c) == c.active
CouponInWindow(c) == c.valid_from <= now /\ now <= c.valid_to
CouponHasUsesLeft(c) == c.usage_limit = NoLimit \/ c.used_count < c.usage_limit[1]
CouponMinimumMet(c, total) == total >= c.min_purchase_amount

Reduced(o) == o.final_price < o.total_price \/ o.discount_amount > 0

\* C17: whatever handler writes an order (Order.save from the order views;
\* ApplyCouponView is one of the steps), the row it writes has a reduced
\* price only with a coupon that is active, inside [valid_from, valid_to]
\* now, below its usage_limit when it has one, and whose
\* min_purchase_amount the order's total_price reaches; with a coupon that
\* fails one of the four the row has final_price = total_price.
C17_DiscountOnlyIfValid ==
    [][\A o \in Saved :
          Reduced(o) =>
              /\ o.coupon # NoCoupon
              /\ CouponActive(CouponByCode(o.coupon))
              /\ CouponInWindow(CouponByCode(o.coupon))
              /\ CouponHasUsesLeft(CouponByCode(o.coupon))
              /\ CouponMinimumMet(CouponByCode(o.coupon), o.total_price)]_vars

\* An order the coupon HALF reduced while it was valid, next to orders whose
\* coupon failed a condition and left the price as it was: total below the
\* minimum, and no use left.
C17_Witness ==
    /\ \E o \in order : o.coupon = "HALF" /\ Reduced(o)
    /\ \E o \in order :
           /\ o.coupon = "HALF" /\ ~Reduced(o)
           /\ ~CouponMinimumMet(CouponByCode(o.coupon), o.total_price)

\* The orders that hold a discount from the coupon with this code.
Discounted(code) == {o \in order : o.coupon = code /\ o.discount_amount > 0}

\* C18: for a coupon with usage_limit = L, the number of orders that have
\* received a discount from it never exceeds L (used_count, which counts
\* the applications, stops it there).
C18_UsageLimit ==
    \A c \in coupon :
        c.usage_limit # NoLimit =>
            Cardinality(Discounted(c.code)) <= c.usage_limit[1]

\* C19: ApplyCouponView applies the coupon to the order: a request by the
\* owner of the order, with the code of an active coupon inside its window,
\* is answered 200 (and the stored final_price is then the reported one).
C19_ApplyCouponApplies ==
    \A user \in Emails, code \in RawCodes, o \in order :
        (/\ o.customer = user
         /\ \E c \in coupon :
                Upper(c.code) = Upper(code) /\ CouponActive(c) /\ CouponInWindow(c))
            => ApplyCouponView_status(user, code, o.id) = 200

OnePaymentPerOrder == \A p \in payment, q \in payment : p.order = q.order => p = q

\* C20: PaymentCreateView records at most one Payment per order: for an
\* order of the requester that has a Payment the answer is 400 and neither
\* table changes; for an order of another user it is 404 and nothing
\* changes; a successful request adds exactly one Payment, whose amount is
\* the final_price the order is stored with when the request completes.
C20_OnePaymentAtFinalPrice ==
    [][/\ OnePaymentPerOrder'
       /\ \A user \in Emails, id \in OrderIds, body \in OrderIds \cup {NoOrder} :
             PaymentCreateView_post(user, id, body) =>
                 IF PaymentCreateView_status(user, id, body) = 201
                 THEN /\ payment' \ payment = {PaymentRow(id, OrderById(id)'.final_price)}
                      /\ payment \subseteq payment'
                 ELSE /\ order' = order
                      /\ payment' = payment]_vars

ExpiredAccess(a) == a.type = "access" /\ now >= a.exp /\ ~is_blacklisted(a.jti)

\* C21: a request with an expired access token of a user and the valid
\* refresh-token cookie LoginView set for that user is authenticated as
\* that user, with a new access token in request.META.
C21_AutoRefresh ==
    \A a \in AccessTokens, r \in RefreshTokens :
        (/\ ExpiredAccess(a)
         /\ r.user = a.user
         /\ RefreshToken_valid(r.jti)
         /\ \E u \in UserByEmail(a.user) : u.is_active)
            => CustomJWTAuthentication_authenticate(a.jti, LoginCookies(r.jti)) =
                   [user |-> a.user, new_access |-> TRUE]

\* C22: each successful CookieTokenRefreshView request issues a new access
\* token and a new refresh token (the new cookie), and the refresh token it
\* was made with is refused by any later refresh; without the cookie the
\* answer is 400 and nothing is issued.
C22_RefreshRotates ==
    [][\A c \in RefreshInputs :
          CookieTokenRefreshView_post(c) =>
              IF CookieTokenRefreshView_status(c) = 200
              THEN /\ \E t \in tokens' \ tokens : t.type = "access"
                   /\ \E t \in tokens' \ tokens : t.type = "refresh"
                   /\ CookieTokenRefreshView_status(c)' # 200
              ELSE tokens' = tokens]_vars

\* What an OTP request may write.
OTPFrame == <<emailOTP, pendingUser, mailsSent>>

\* The one row an accepted request leaves for the email: created now, with
\* the code that is mailed, living ten minutes.
FreshOTP(e, c) ==
    [email |-> e, code |-> c, purpose |-> "registration", created_at |-> now,
     expires_at |-> now + 600, is_used |-> FALSE]

OrphanOTPs == {o \in emailOTP : o.purpose = "registration" /\ ~o.is_used
                                   /\ PendingByEmail(o.email) = {}}

\* C24: ResendOTPView answers 404 when no PendingUser exists for the email,
\* and whenever an unused registration EmailOTP row exists for an email a
\* PendingUser row exists for that email.
C24_OTPOnlyForPending ==
    /\ \A raw \in RawEmails :
           (Lower(raw) # "" /\ PendingByEmail(Lower(raw)) = {})
               => ResendOTPView_status(raw) = 404
    /\ OrphanOTPs = {}

\* C25: an OTP is single-use under concurrent verification.  Whatever the
\* interleaving of the statements of two otp/verify/ requests carrying the
\* same (email, otp), at most one CustomUser row exists for the email, at
\* most one create_user has succeeded for it, and at most one of the
\* requests has returned tokens.
ReturnedTokens(e, c) ==
    {r \in Requests : /\ verifying[r].pc = "200"
                      /\ verifying[r].email = e
                      /\ verifying[r].code = c}
C25_SingleUseUnderRace ==
    \A e \in Emails :
        /\ Cardinality(UserByEmail(e)) <= 1
        /\ promotions[e] <= 1
        /\ \A c \in Codes : Cardinality(ReturnedTokens(e, c)) <= 1
\* both requests passed the filter with the same unused row; one was
\* answered 200 with tokens and the other failed after that
C25_Witness ==
    /\ verifying["r1"].otp # {}
    /\ verifying["r1"].otp = verifying["r2"].otp
    /\ verifying["r1"].pc = "200"
    /\ verifying["r2"].pc \in {"404", "500"}
    /\ Cardinality(UserByEmail("a@x")) = 1

\* C26: an otp/verify/ request answered with an error, 400 or 404, leaves
\* the EmailOTP, PendingUser and CustomUser tables as they were, and every
\* OTP that would have been accepted before it is still accepted after it.
VerifyTables == <<emailOTP, pendingUser, customUser>>
C26_FailedVerifyKeepsTables ==
    [][\A e \in RawEmails, c \in Codes :
           (VerifyOTPView_post(e, c) /\ VerifyOTPView_status(e, c) \in {400, 404}) =>
               /\ UNCHANGED VerifyTables
               /\ \A e2 \in Emails, c2 \in Codes : AcceptedOTP(e2, c2)' = AcceptedOTP(e2, c2)]_vars
====
